---- MODULE Spec2Model ----
(***************************************************************************)
(* Streaming segmentation and pause-commit loop of src/temp.py.            *)
(*                                                                         *)
(* Two threads of control: the capture callback (audio_callback), which    *)
(* only pushes frames on audio_queue, and main's `while True` loop, which  *)
(* polls the queue, slices windows off buffer_audio, runs recognition and  *)
(* translation, and commits the provisional text when the poll times out.  *)
(*                                                                         *)
(* Text is a sequence of tokens; SP is the blank.  Time is counted in      *)
(* tenths of a second.  Samples are natural numbers: in a recorded run     *)
(* (rec = TRUE) each pushed sample carries its own sequence number, so     *)
(* that loss, duplication and reordering are visible.                      *)
(***************************************************************************)
EXTENDS Integers, Sequences, FiniteSets, TLC

\* ----------------------------------------------------------------- CONFIG
\* src/temp.py:10, scaled down: samples per second in the model.
SAMPLE_RATE == 2
\* src/temp.py:12
CHUNK_DURATION == 1
\* src/temp.py:15, in tenths of a second (0.8 s).
PAUSE_THRESHOLD == 8
\* src/temp.py:60, audio_queue.get(timeout=1.0), in tenths of a second.
POLL_TIMEOUT == 10

\* ----------------------------------------------------------------- bounds
\* Frames pushed in a recorded run.
MaxFrames == 3
\* Frames waiting in audio_queue in an unrecorded run.
MaxQueue == 1
\* Windows with non-empty recognition in one run.
MaxSpeech == 2
\* Tenths of a second by which the clock advances in one step.
Quantum == 5
\* Largest clock reading kept; older time stamps slide towards 0.  It is
\* above PAUSE_THRESHOLD, so the pause test reads the same on slid stamps.
Horizon == 2 * Quantum

\* int(SAMPLE_RATE * CHUNK_DURATION), src/temp.py:72-74
W == SAMPLE_RATE * CHUNK_DURATION

\* Sizes of the frames the capture adapter may deliver: shorter than a window,
\* exactly one window, longer than a window (blocksize is left to the host).
FrameLens == {1, W, W + 1}

\* ------------------------------------------------------------------- text
SP == " "

RECURSIVE LStrip(_)
LStrip(s) == IF s # <<>> /\ Head(s) = SP THEN LStrip(Tail(s)) ELSE s

RECURSIVE RStrip(_)
RStrip(s) ==
    IF s # <<>> /\ s[Len(s)] = SP THEN RStrip(SubSeq(s, 1, Len(s) - 1)) ELSE s

\* str.strip()
Strip(s) == LStrip(RStrip(s))

\* " ".join(...)
RECURSIVE Join(_)
Join(segs) ==
    IF segs = <<>> THEN <<>>
    ELSE IF Len(segs) = 1 THEN segs[1]
    ELSE segs[1] \o <<SP>> \o Join(Tail(segs))

\* What transcribe may return for one window: a list of segment texts.
SegLists ==
    { <<>>,
      << <<>>, <<>> >>,
      << <<SP, "hello">> >>,
      << <<"hello">>, <<"there">> >> }

RecognizedText_NoStrip(segs) == Join(segs)

\* asr_text = " ".join([seg.text for seg in segments]).strip()
RecognizedText(segs) == Strip(Join(segs))

\* What translate_text may return.
Translations == { <<>>, <<"X">>, <<"Y">> }

IsPrefix(s, t) == Len(s) <= Len(t) /\ SubSeq(t, 1, Len(s)) = s

\* ------------------------------------------------------- pause and commit
PauseElapsed_Reversed(t, t0) == t - t0 < PAUSE_THRESHOLD

\* time.time() - last_speech_time > PAUSE_THRESHOLD
PauseElapsed(t, t0) == t - t0 > PAUSE_THRESHOLD

ShouldCommit_NoProvisionalTest(prov, t, t0) == PauseElapsed(t, t0)

\* if provisional_text and (time.time() - last_speech_time > PAUSE_THRESHOLD)
ShouldCommit(prov, t, t0) == prov # <<>> /\ PauseElapsed(t, t0)

Committed_NoSeparator(comm, prov) == comm \o prov

Committed_Replaces(comm, prov) == <<SP>> \o prov

\* committed_text += " " + provisional_text
Committed(comm, prov) == comm \o <<SP>> \o prov

SpeechTime_Stale(t, old) == old

\* last_speech_time = time.time()
SpeechTime(t, old) == t

NewProvisional_Accumulates(old, t) == old \o t

\* provisional_text = translated
NewProvisional(old, t) == t

\* ------------------------------------------------------ window extraction
\* len(buffer_audio) >= int(SAMPLE_RATE * CHUNK_DURATION)
HasWindow(buf) == Len(buf) >= W

\* buffer_audio[:W]
WindowOf(buf) == SubSeq(buf, 1, W)

RestOf_Overlapping(buf) == SubSeq(buf, W, Len(buf))

\* buffer_audio[W:]
RestOf(buf) == SubSeq(buf, W + 1, Len(buf))

\* ------------------------------------------------------------------ state
VARIABLES
    audio_queue,       \* frames pushed and not yet popped
    buffer_audio,      \* samples not yet sliced into a window
    provisional_text,
    committed_text,
    last_speech_time,
    process_chunk,     \* the window in flight
    segments,          \* what transcribe returned for the last window
    asr_text,
    translated,
    pc,                \* where main is: poll, asr, translate, stopped, crashed
    now,               \* the clock, time.time()
    waited,            \* how long the current poll has been waiting
    event,             \* what main's last step was
    pre,               \* transcript state when the current iteration began
    rec,               \* TRUE in a recorded run
    pushed,            \* recorded: every frame pushed, in order
    popped,            \* recorded: every frame popped, in order
    windows,           \* recorded: every window extracted, in order
    speechCount,       \* windows with non-empty recognition so far
    ready,             \* a window-ready event happened since the last commit
    scen,              \* progress of the end-to-end scenario of spec section 8
    tock,              \* unrecorded run: parity of the clock steps taken
    translog           \* recorded: what translate_text returned, per window

vars ==
    << audio_queue, buffer_audio, provisional_text, committed_text,
       last_speech_time, process_chunk, segments, asr_text, translated, pc,
       now, waited, event, pre, rec, pushed, popped, windows, speechCount,
       ready, scen, tock, translog >>

transcript == << provisional_text, committed_text, last_speech_time >>

Running == pc \in {"poll", "asr", "translate"}

RECURSIVE Flatten(_)
Flatten(ss) == IF ss = <<>> THEN <<>> ELSE Head(ss) \o Flatten(Tail(ss))

\* Number of samples pushed so far in a recorded run.
SamplesPushed == Len(Flatten(pushed))

\* The transcript state as main sees it on entering an iteration at time t;
\* elapsed is time.time() - last_speech_time at that moment.
Snapshot(t) ==
    [ provisional |-> provisional_text,
      committed   |-> committed_text,
      last        |-> last_speech_time,
      elapsed     |-> t - last_speech_time,
      ready       |-> ready ]

InitWith(r) ==
    /\ audio_queue = <<>>
    /\ buffer_audio = <<>>
    /\ provisional_text = <<>>
    /\ committed_text = <<>>
    /\ now = 0
    /\ last_speech_time = 0
    /\ process_chunk = <<>>
    /\ segments = <<>>
    /\ asr_text = <<>>
    /\ translated = <<>>
    /\ pc = "poll"
    /\ waited = 0
    /\ event = "start"
    /\ pre = [provisional |-> <<>>, committed |-> <<>>, last |-> 0,
              elapsed |-> 0, ready |-> FALSE]
    /\ rec = r
    /\ pushed = <<>>
    /\ popped = <<>>
    /\ windows = <<>>
    /\ speechCount = 0
    /\ ready = FALSE
    /\ scen = 0
    /\ tock = FALSE
    /\ translog = <<>>

Init == InitWith(TRUE)

\* The scenario monitor is kept in recorded runs only.
Track(s) == IF rec THEN s ELSE 0

\* --------------------------------------------------------------- capture
\* The frame the callback copies: n samples.
NewFrame(n) == [i \in 1..n |-> IF rec THEN SamplesPushed + i ELSE 0]

Put_Front(q, f) == <<f>> \o q

\* queue.Queue.put: the frame joins the queue at its end.
Put(q, f) == Append(q, f)

\* audio_callback: audio_queue.put(indata.copy())
AudioCallback(n) ==
    /\ Running
    /\ IF rec THEN Len(pushed) < MaxFrames
              ELSE Len(audio_queue) < MaxQueue /\ n <= W
    /\ audio_queue' = Put(audio_queue, NewFrame(n))
    /\ pushed' = IF rec THEN Append(pushed, NewFrame(n)) ELSE pushed
    /\ UNCHANGED << buffer_audio, provisional_text, committed_text,
                    last_speech_time, process_chunk, segments, asr_text,
                    translated, pc, now, waited, event, pre, rec, popped,
                    windows, speechCount, ready, scen, tock,
                    translog >>

\* ------------------------------------------------------------------ clock
\* A time stamp after the origin of the clock has moved forward by s.
Slide(x, s) == IF x > s THEN x - s ELSE 0

\* Quantum tenths of a second pass.  Readings above Horizon are not kept:
\* the origin moves forward instead and every stored time stamp with it.
Pass ==
    /\ Running
    /\ LET over == IF now + Quantum > Horizon THEN now + Quantum - Horizon
                   ELSE 0
       IN /\ now' = now + Quantum - over
          /\ last_speech_time' = Slide(last_speech_time, over)
          /\ pre' = [pre EXCEPT !.last = Slide(@, over)]
    /\ waited' = IF pc = "poll"
                 THEN (IF waited + Quantum > POLL_TIMEOUT THEN POLL_TIMEOUT
                       ELSE waited + Quantum)
                 ELSE waited
    /\ tock' = IF rec THEN tock ELSE ~tock
    /\ UNCHANGED << audio_queue, buffer_audio, provisional_text,
                    committed_text, process_chunk, segments, asr_text,
                    translated, pc, event, rec, pushed, popped, windows,
                    speechCount, ready, scen, translog >>

\* ------------------------------------------------------------- main loop
CanPoll_Overlapping == pc \in {"poll", "asr"}

\* main reaches audio_queue.get only at the top of the loop, after the
\* previous iteration has run to its end or to a `continue`.
CanPoll == pc = "poll"

\* chunk = audio_queue.get(timeout=1.0).flatten() returns a frame;
\* buffer_audio = np.concatenate([buffer_audio, chunk]); one window is cut
\* when there is enough audio.
PollGet ==
    /\ CanPoll
    /\ audio_queue # <<>>
    /\ LET chunk == Head(audio_queue)
           buf   == buffer_audio \o chunk
       IN /\ audio_queue' = Tail(audio_queue)
          /\ popped' = IF rec THEN Append(popped, chunk) ELSE popped
          /\ IF HasWindow(buf)
             THEN /\ process_chunk' = WindowOf(buf)
                  /\ buffer_audio' = RestOf(buf)
                  /\ windows' = IF rec THEN Append(windows, WindowOf(buf))
                                ELSE windows
                  /\ pc' = "asr"
                  /\ event' = "window"
             ELSE /\ buffer_audio' = buf
                  /\ pc' = "poll"
                  /\ event' = "pop"
                  /\ UNCHANGED << process_chunk, windows >>
    /\ waited' = 0
    /\ pre' = Snapshot(now)
    /\ UNCHANGED << provisional_text, committed_text, last_speech_time,
                    segments, asr_text, translated, now, rec, pushed,
                    speechCount, ready, scen, tock,
                    translog >>

PollExpired_NoWait == audio_queue = <<>>

\* audio_queue.get(timeout=1.0) raises queue.Empty: no frame for POLL_TIMEOUT.
PollExpired == audio_queue = <<>> /\ waited >= POLL_TIMEOUT

AfterCommit_Kept(prov) == prov

\* provisional_text = ""
AfterCommit(prov) == <<>>

\* except queue.Empty: the poll found nothing for POLL_TIMEOUT.
PollTimeout ==
    /\ pc = "poll"
    /\ PollExpired
    /\ IF ShouldCommit(provisional_text, now, last_speech_time)
       THEN /\ committed_text' = Committed(committed_text, provisional_text)
            /\ provisional_text' = AfterCommit(provisional_text)
            /\ ready' = FALSE
            /\ scen' = Track(IF scen = 3 THEN 5 ELSE 4)
       ELSE UNCHANGED << committed_text, provisional_text, ready, scen >>
    /\ waited' = 0
    /\ event' = "tick"
    /\ pre' = Snapshot(now)
    /\ UNCHANGED << audio_queue, buffer_audio, last_speech_time,
                    process_chunk, segments, asr_text, translated, pc, now,
                    rec, pushed, popped, windows, speechCount, tock,
                    translog >>

\* asr_model.transcribe returns segs for the window in flight.
AsrReturn(segs) ==
    /\ pc = "asr"
    /\ segments' = segs
    /\ asr_text' = RecognizedText(segs)
    /\ IF RecognizedText(segs) = <<>>
       THEN /\ pc' = "poll"
            /\ event' = "silent"
            /\ scen' = Track(IF scen = 2 THEN 3 ELSE 4)
            /\ UNCHANGED << last_speech_time, speechCount, ready >>
       ELSE /\ speechCount < MaxSpeech
            /\ last_speech_time' = SpeechTime(now, last_speech_time)
            /\ speechCount' = speechCount + 1
            /\ ready' = TRUE
            /\ pc' = "translate"
            /\ event' = "speech"
            /\ UNCHANGED scen
    /\ UNCHANGED << audio_queue, buffer_audio, provisional_text,
                    committed_text, process_chunk, translated, now, waited,
                    pre, rec, pushed, popped, windows, tock,
                    translog >>

\* asr_model.transcribe raises: nothing in main catches it.
AsrFail ==
    /\ pc = "asr"
    /\ pc' = "crashed"
    /\ event' = "asr_failed"
    /\ UNCHANGED << audio_queue, buffer_audio, provisional_text,
                    committed_text, last_speech_time, process_chunk,
                    segments, asr_text, translated, now, waited, pre, rec,
                    pushed, popped, windows, speechCount, ready, scen, tock,
                    translog >>

\* The scenario of spec section 8: "hello" -> "X", "hello there" -> "Y", "",
\* then the commit.  scen counts the steps of it the run has followed so far
\* (3: the three windows, 5: the commit after them) and is 4 once the run has
\* left it.
ScenarioStep(s, text, t) ==
    IF s = 0 /\ text = <<"hello">> /\ t = <<"X">> THEN 1
    ELSE IF s = 1 /\ text = <<"hello", SP, "there">> /\ t = <<"Y">> THEN 2
    ELSE 4

\* Recorded runs keep what translate_text returned for window number w.
Logged(log, w, heard, t) ==
    IF rec
    THEN Append(log, [window |-> w, heard |-> heard # <<>>, text |-> t])
    ELSE log

\* translate_text(asr_text) returns t.
TranslateReturn(t) ==
    /\ pc = "translate"
    /\ translated' = t
    /\ provisional_text' = NewProvisional(provisional_text, t)
    /\ translog' = Logged(translog, Len(windows), asr_text, t)
    /\ scen' = Track(ScenarioStep(scen, asr_text, t))
    /\ pc' = "poll"
    /\ event' = "translated"
    /\ UNCHANGED << audio_queue, buffer_audio, committed_text,
                    last_speech_time, process_chunk, segments, asr_text, now,
                    waited, pre, rec, pushed, popped, windows, speechCount,
                    ready, tock >>

\* translate_text raises: nothing in main catches it.
TranslateFail ==
    /\ pc = "translate"
    /\ pc' = "crashed"
    /\ event' = "translate_failed"
    /\ UNCHANGED << audio_queue, buffer_audio, provisional_text,
                    committed_text, last_speech_time, process_chunk,
                    segments, asr_text, translated, now, waited, pre, rec,
                    pushed, popped, windows, speechCount, ready, scen, tock,
                    translog >>

AtStop_Flushes(comm, prov) == IF prov # <<>> THEN Committed(comm, prov) ELSE comm

\* What committed_text is when main is interrupted: nothing catches
\* KeyboardInterrupt, so provisional text is not appended.
AtStop(comm, prov) == comm

\* Ctrl+C: KeyboardInterrupt ends main wherever it is.
Stop ==
    /\ Running
    /\ pc' = "stopped"
    /\ event' = "stop"
    /\ committed_text' = AtStop(committed_text, provisional_text)
    /\ UNCHANGED << audio_queue, buffer_audio, provisional_text,
                    last_speech_time, process_chunk,
                    segments, asr_text, translated, now, waited, pre, rec,
                    pushed, popped, windows, speechCount, ready, scen, tock,
                    translog >>

Push == \E n \in FrameLens : AudioCallback(n)

Recognize == \E segs \in SegLists : AsrReturn(segs)

Translate == \E t \in Translations : TranslateReturn(t)

MainStep ==
    \/ PollGet
    \/ PollTimeout
    \/ Recognize
    \/ Translate

Next ==
    \/ Push
    \/ Pass
    \/ PollGet
    \/ PollTimeout
    \/ Recognize
    \/ AsrFail
    \/ Translate
    \/ TranslateFail
    \/ Stop

Spec == Init /\ [][Next]_vars

\* An unrecorded run: frames keep coming for ever.  Time passes, and main
\* takes its next step whenever it can.
LiveInit == InitWith(FALSE)

LiveSpec ==
    /\ LiveInit
    /\ [][Next]_vars
    /\ WF_vars(Pass)
    /\ WF_vars(MainStep)

\* ----------------------------------------------------------------- claims
\* A commit: the tick just taken changed committed_text.
CommittedOnTick == event = "tick" /\ committed_text # pre.committed

\* C1: on every tick (queue-poll timeout), a commit happens if and only if
\* provisional_text was non-empty and more than PAUSE_THRESHOLD had elapsed
\* since last_speech_time; with provisional_text empty no tick changes
\* committed_text, however long ago last_speech_time was.
C1_PauseCommit ==
    event = "tick" =>
        /\ committed_text # pre.committed
               <=> (pre.provisional # <<>> /\ pre.elapsed > PAUSE_THRESHOLD)
        /\ pre.provisional = <<>> => committed_text = pre.committed

\* A tick past the threshold that committed the provisional text.
C1_Witness ==
    /\ CommittedOnTick
    /\ pre.provisional # <<>>
    /\ pre.elapsed > PAUSE_THRESHOLD

\* C2: right after a commit provisional_text is empty and committed_text is
\* what it was, then the separator " ", then the provisional text held before
\* the commit; a tick with no window-ready event since the last commit
\* commits nothing and leaves committed_text as it was.
C2_CommitClearsOnce ==
    event = "tick" =>
        /\ committed_text # pre.committed =>
               /\ provisional_text = <<>>
               /\ committed_text = pre.committed \o <<SP>> \o pre.provisional
        /\ ~pre.ready => committed_text = pre.committed

\* A second tick after a commit, with no window-ready event in between.
C2_Witness ==
    /\ event = "tick"
    /\ ~pre.ready
    /\ pre.committed # <<>>
    /\ pre.elapsed > PAUSE_THRESHOLD
    /\ committed_text = pre.committed

\* C3 (as claimed): whenever provisional_text is non-empty, a commit follows,
\* unless a window is recognized as speech first or the session ends; also
\* when frames keep arriving and every window is silent.
C3_SilenceCommits ==
    (Running /\ provisional_text # <<>>)
        ~> (provisional_text = <<>> \/ event = "speech" \/ ~Running)

\* The transcript state is what it was when the current iteration began.
TranscriptAsBefore ==
    /\ provisional_text = pre.provisional
    /\ committed_text = pre.committed
    /\ last_speech_time = pre.last

\* C4: processing a window whose recognition text is empty after stripping
\* leaves last_speech_time, provisional_text and committed_text exactly as
\* they were before that window.
C4_EmptyRecognitionKeepsClock ==
    (event \in {"silent", "speech", "translated"}
        /\ Strip(Join(segments)) = <<>>) => TranscriptAsBefore

\* A window of blank segments was processed while provisional text was
\* pending and time had passed since the last speech.
C4_Witness ==
    /\ event = "silent"
    /\ segments = << <<>>, <<>> >>
    /\ provisional_text # <<>>
    /\ now > last_speech_time

\* C5 (as claimed): when translate_text fails after a non-empty recognition,
\* provisional_text, committed_text and last_speech_time are what they were
\* before the window was processed.
C5_FailureIsolation == event = "translate_failed" => TranscriptAsBefore

\* C6 (as claimed): after the recognition or the translation call fails, the
\* processing loop is still running, ready for the next window.
C6_ResumesAfterFailure ==
    event \in {"asr_failed", "translate_failed"} => Running

\* C7: provisional_text is empty or the translation of the most recent window
\* with non-empty recognition, never an accumulation; along the scenario
\* "hello" -> "X", "hello there" -> "Y", "" it is "X", then "Y", then "Y".
C7_ProvisionalOverwritten ==
    /\ provisional_text \in {<<>>, translated}
    /\ scen = 1 => provisional_text = <<"X">>
    /\ scen \in {2, 3} => provisional_text = <<"Y">>

\* The third window of the scenario, the silent one, has been processed.
C7_Witness ==
    /\ scen = 3
    /\ event = "silent"
    /\ provisional_text = <<"Y">>
    /\ committed_text = <<>>

\* C8 (as claimed): once a window with non-empty recognition is processed,
\* last_speech_time is the clock reading of that processing, provisional_text
\* is the new translation result and the machine is in the Provisional state
\* (provisional_text non-empty), whatever the translation result.
C8_AlwaysProvisional ==
    [][ /\ (pc = "asr" /\ pc' = "translate") => last_speech_time' = now
        /\ (pc = "translate" /\ pc' = "poll") =>
               /\ last_speech_time' = last_speech_time
               /\ provisional_text' = translated'
               /\ provisional_text' # <<>> ]_vars

\* C8 (amended): once a window with non-empty recognition is processed,
\* last_speech_time is the clock reading taken when its recognition returned,
\* provisional_text is the new translation result, and the machine is in the
\* Provisional state exactly when that result is non-empty.
C8_WindowReady ==
    [][ /\ (pc = "asr" /\ pc' = "translate") => last_speech_time' = now
        /\ (pc = "translate" /\ pc' = "poll") =>
               /\ last_speech_time' = last_speech_time
               /\ provisional_text' = translated'
               /\ provisional_text' # <<>> <=> translated' # <<>> ]_vars

\* A later window replaced pending provisional text with a new non-empty
\* translation and moved last_speech_time forward.
C8_Witness ==
    /\ event = "translated"
    /\ translated # <<>>
    /\ provisional_text = translated
    /\ pre.provisional \notin {<<>>, translated}
    /\ last_speech_time > pre.last

\* C9: committed_text only ever grows at its end: every step leaves what was
\* committed before as a prefix of what is committed after.
C9_CommittedIsAppendOnly ==
    [][IsPrefix(committed_text, committed_text')]_vars

\* Two commits have happened, the second appended to the first.
C9_Witness ==
    /\ CommittedOnTick
    /\ pre.committed # <<>>
    /\ IsPrefix(pre.committed, committed_text)

\* C10 (as claimed): once every pushed frame has been popped and appended,
\* with N samples in all, floor(N / W) windows of W samples each have been
\* extracted and buffer_audio holds N mod W samples.
C10_ExtractionExact ==
    (rec /\ popped = pushed) =>
        LET N == Len(Flatten(popped))
        IN /\ Len(windows) = N \div W
           /\ \A i \in 1..Len(windows) : Len(windows[i]) = W
           /\ Len(buffer_audio) = N % W

\* C11: in a recorded run, the windows extracted so far, in extraction order,
\* followed by what buffer_audio holds are exactly the samples of the frames
\* popped so far, in pop order: nothing lost, repeated or reordered.
C11_NoSampleLoss ==
    rec => Flatten(windows) \o buffer_audio = Flatten(popped)

\* Two windows have been cut from three frames and a remainder is buffered.
C11_Witness ==
    /\ rec
    /\ Len(windows) >= 2
    /\ Len(popped) = 3
    /\ buffer_audio # <<>>

\* C12 (as claimed): right after a window is sliced off, buffer_audio holds
\* fewer than W samples, whatever the sizes of the frames delivered.
C12_BufferBelowWindow == event = "window" => Len(buffer_audio) < W

\* C13: in a recorded run, under every interleaving of the callback and the
\* processing loop, the frames popped so far are a prefix of the frames
\* pushed, and every pushed frame is either popped or still in the queue, in
\* the order pushed.
C13_QueueFifoLossless ==
    rec => /\ IsPrefix(popped, pushed)
           /\ pushed = popped \o audio_queue

\* Frames were pushed while main was inside recognition or translation.
C13_Witness ==
    /\ rec
    /\ pc \in {"asr", "translate"}
    /\ popped # <<>>
    /\ Len(audio_queue) >= 2

\* C14: when main waits on an empty queue with provisional text pending,
\* then, unless a frame is pushed or the session ends, the poll times out and
\* the pending text is committed; and if frames stop coming altogether,
\* pending provisional text never stays pending for ever.
C14_CommitWithoutAudio ==
    /\ (pc = "poll" /\ audio_queue = <<>> /\ provisional_text # <<>>)
          ~> \/ audio_queue # <<>>
             \/ ~Running
             \/ /\ CommittedOnTick
                /\ pre.provisional # <<>>
                /\ committed_text
                      = pre.committed \o <<SP>> \o pre.provisional
    /\ \/ []<><<Push>>_vars
       \/ (Running /\ provisional_text # <<>>)
              ~> (provisional_text = <<>> \/ ~Running)

\* With no frame waiting, a tick has committed the pending text "Y" in a run
\* whose frames are not bounded.
C14_Witness ==
    /\ ~rec
    /\ CommittedOnTick
    /\ pre.provisional = <<"Y">>
    /\ audio_queue = <<>>
    /\ buffer_audio # <<>>

\* C15: a window is extracted only when no window is in flight, that is when
\* recognition and translation of the one before have completed; the window
\* in flight is always the one extracted last, so windows are recognized in
\* extraction order, while frames may be pushed throughout.
C15_SerialPipeline ==
    /\ [](rec /\ pc \in {"asr", "translate"} =>
             /\ windows # <<>>
             /\ process_chunk = windows[Len(windows)])
    /\ [][windows' # windows =>
             /\ pc = "poll"
             /\ pc' = "asr"
             /\ Len(windows') = Len(windows) + 1
             /\ process_chunk' = windows'[Len(windows')]]_vars

\* The second window is being translated while pushed frames wait.
C15_Witness ==
    /\ rec
    /\ pc = "translate"
    /\ Len(windows) = 2
    /\ process_chunk = windows[2]
    /\ audio_queue # <<>>

\* The step in which the poll times out: main was waiting, the wait had
\* lasted POLL_TIMEOUT, and the step starts a new wait as a tick.
TickStep ==
    /\ pc = "poll"
    /\ waited >= POLL_TIMEOUT
    /\ waited' = 0
    /\ event' = "tick"

\* C16: a queue-poll timeout never changes buffer_audio or last_speech_time
\* (nor the queue, the window in flight or the recognition and translation
\* results); with provisional_text empty or the pause not elapsed it changes
\* nothing at all, and otherwise its only change is the commit.
C16_TickFrame ==
    [][TickStep =>
         /\ UNCHANGED << buffer_audio, last_speech_time, audio_queue,
                         process_chunk, segments, asr_text, translated, pc,
                         now >>
         /\ IF provisional_text = <<>>
               \/ now - last_speech_time <= PAUSE_THRESHOLD
            THEN UNCHANGED << provisional_text, committed_text >>
            ELSE /\ committed_text'
                      = committed_text \o <<SP>> \o provisional_text
                 /\ provisional_text' = <<>>]_vars

\* A tick in the Idle state, long after the last speech, with part of a
\* window buffered: nothing was committed.
C16_Witness ==
    /\ event = "tick"
    /\ pre.provisional = <<>>
    /\ pre.elapsed > PAUSE_THRESHOLD
    /\ committed_text = pre.committed
    /\ provisional_text = <<>>
    /\ buffer_audio # <<>>

\* C17: the stop signal leaves committed_text and provisional_text as they
\* are, nothing changes committed_text after the stop, and committed_text
\* changes in commits on ticks only: at termination it is what the last
\* commit left, without the pending provisional text.
C17_StopAbandonsProvisional ==
    /\ [][(pc # "stopped" /\ pc' = "stopped") =>
             UNCHANGED << committed_text, provisional_text >>]_vars
    /\ [][pc = "stopped" => UNCHANGED committed_text]_vars
    /\ [][committed_text' # committed_text => TickStep]_vars

\* Stopped after a commit, with newer provisional text still pending.
C17_Witness ==
    /\ event = "stop"
    /\ pc = "stopped"
    /\ provisional_text # <<>>
    /\ committed_text # <<>>
    /\ committed_text = pre.committed

C19_TickInProvisionalCommits ==
    event = "tick" =>
        /\ pre.elapsed >= POLL_TIMEOUT
        /\ pre.elapsed > PAUSE_THRESHOLD
        /\ pre.provisional # <<>> =>
               /\ committed_text # pre.committed
               /\ provisional_text = <<>>

\* A tick exactly POLL_TIMEOUT after the last speech committed the text.
C19_Witness ==
    /\ CommittedOnTick
    /\ pre.provisional # <<>>
    /\ pre.elapsed = POLL_TIMEOUT

\* The text made of the entries of log that keep selects, in order, each
\* preceded by one space.
RECURSIVE Assemble(_, _)
Assemble(log, keep) ==
    IF log = <<>> THEN <<>>
    ELSE (IF Head(keep) THEN <<SP>> \o Head(log).text ELSE <<>>)
             \o Assemble(Tail(log), Tail(keep))

\* C20: committed_text is the concatenation, each piece preceded by one
\* space, of non-empty results of translate_text, each used at most once and
\* in the order returned; the results belong to distinct windows, in the order
\* of extraction, each with non-empty recognition.
C20_CommittedFromTranslations ==
    rec =>
        /\ \E keep \in [1..Len(translog) -> BOOLEAN] :
              /\ \A i \in 1..Len(translog) :
                    keep[i] => translog[i].text # <<>>
              /\ committed_text = Assemble(translog, keep)
        /\ \A i \in 1..Len(translog) :
              /\ translog[i].window \in 1..Len(windows)
              /\ translog[i].heard
              /\ \A j \in 1..Len(translog) :
                    i < j => translog[i].window < translog[j].window

\* Two windows were translated and each translation was committed on a tick
\* of its own: the transcript holds both, in window order.
C20_Witness ==
    /\ rec
    /\ event = "tick"
    /\ Len(translog) = 2
    /\ translog[1].window < translog[2].window
    /\ translog[1].text # translog[2].text
    /\ provisional_text = <<>>
    /\ committed_text
          = <<SP>> \o translog[1].text \o <<SP>> \o translog[2].text

====
